---- MODULE Spec2Model ----
(***************************************************************************)
(* A model of paramguard: the Config tree of scanner/parser.go and its     *)
(* search primitives, the nine check kinds of CheckRule (scanner/rules.go),*)
(* the Scanner (NewScanner, ScanConfig, ScanFile) and the scan command of  *)
(* the command line (runScan).                                             *)
(*                                                                         *)
(* Go values of type interface{} are tagged records:                       *)
(*   string  [t |-> "string", s |-> "..."]                                 *)
(*   float64 [t |-> "number", n |-> i]        (integral values only)       *)
(*   bool    [t |-> "bool",   b |-> TRUE]                                  *)
(*   nil     [t |-> "nil"]                                                 *)
(*   []interface{}           [t |-> "seq", items |-> <<...>>]              *)
(*   map[string]interface{}  [t |-> "map", m |-> function on its keys]     *)
(*                                                                         *)
(* Go visits the keys of a map in an order that differs from one range     *)
(* statement to the next.  An operator that models a function whose result *)
(* is built while ranging over a map returns the SET of results the        *)
(* function can produce, one per visiting order; the calling action picks  *)
(* one of them.                                                            *)
(***************************************************************************)
EXTENDS Integers, Sequences, FiniteSets, TLC

VARIABLES
    config,     \* the Config under scan: [Data, FilePath]
    rule,       \* the Rule handed to CheckRule
    call,       \* the last call made: its function and, for a primitive, its argument
    ret         \* what that call returned

VARIABLES
    disk,       \* the file system: path |-> what decoding the file gives
    scanner,    \* the Scanner: [rules |-> RulesFile], or NoScanner
    frame       \* the running ScanFile: its file, next rule and findings so far

VARIABLES
    args,           \* os.Args[2:] of a "paramguard scan" run
    pc,             \* where runScan is
    rulesFile,      \* runScan's locals
    outputFormat,
    configFiles,
    allResults,
    hasIssues,
    stdout,         \* the ScanResults written to standard output
    stderr,         \* the messages written to standard error
    exitCode        \* the argument of os.Exit, once called

scanVars == <<disk, scanner, frame>>

cliVars == <<args, pc, rulesFile, outputFormat, configFiles, allResults,
             hasIssues, stdout, stderr, exitCode>>

vars == <<config, rule, call, ret, scanVars, cliVars>>

----------------------------------------------------------------------------
(* Values *)

StrV(s) == [t |-> "string", s |-> s]

NumV(n) == [t |-> "number", n |-> n]

BoolV(b) == [t |-> "bool", b |-> b]

NilV == [t |-> "nil"]

SeqV(items) == [t |-> "seq", items |-> items]

MapV(m) == [t |-> "map", m |-> m]

EmptyMap == << >>

IsString(v) == v.t = "string"

IsNumber(v) == v.t = "number"

IsMap(v) == v.t = "map"

IsSeq(v) == v.t = "seq"

----------------------------------------------------------------------------
(* The bounded universe of configurations *)

\* Most key entries and sequence items a configuration holds, over all depths.
MaxNodes == 3

Keys == {"temperature", "api_key"}

\* The names a caller asks for: the keys, a name no configuration holds, and
\* the empty name.
FieldNames == Keys \cup {"top_p", ""}

Strings == {"x", "xy"}

Numbers == {-1, 0, 1, 2}

Scalars ==
    {StrV(s) : s \in Strings} \cup {NumV(n) : n \in Numbers}
        \cup {BoolV(TRUE), NilV}

\* What a new entry or item holds: a scalar or an empty container.
LeavesOver(scalars) == scalars \cup {MapV(EmptyMap), SeqV(<< >>)}

RECURSIVE Extensions(_, _)
\* The values obtained from v by adding one key entry or one sequence item
\* anywhere inside it.
Extensions(v, leaves) ==
    CASE IsMap(v) ->
            {MapV(v.m @@ (k :> l)) : k \in Keys \ DOMAIN v.m, l \in leaves}
                \cup UNION {{MapV([v.m EXCEPT ![k] = e])
                                : e \in Extensions(v.m[k], leaves)}
                                : k \in DOMAIN v.m}
      [] IsSeq(v) ->
            {SeqV(Append(v.items, l)) : l \in leaves}
                \cup UNION {{SeqV([v.items EXCEPT ![i] = e])
                                : e \in Extensions(v.items[i], leaves)}
                                : i \in DOMAIN v.items}
      [] OTHER -> {}

RECURSIVE Grown(_, _)
\* The mappings with at most n entries and items.
Grown(n, leaves) ==
    IF n = 0 THEN {MapV(EmptyMap)}
    ELSE LET smaller == Grown(n - 1, leaves)
         IN  smaller \cup UNION {Extensions(v, leaves) : v \in smaller}

\* The configurations whose Data holds at most MaxNodes entries and items,
\* with scalars drawn from the given set.
ConfigsOver(scalars) ==
    {[Data |-> v.m, FilePath |-> "config.json"]
        : v \in Grown(MaxNodes, LeavesOver(scalars))}

Configs == ConfigsOver(Scalars)

----------------------------------------------------------------------------
(* Config: the search primitives of scanner/parser.go *)

\* The orders in which one range statement can visit the keys of data.
RangeOrders(data) ==
    LET n == Cardinality(DOMAIN data)
    IN  {o \in [1..n -> DOMAIN data] : \A i, j \in 1..n : o[i] = o[j] => i = j}

RECURSIVE hasFieldRecursive(_, _)
\* The loop returns true at the first key that is the field or whose nested
\* mapping holds it, and false when no key does: a disjunction over the keys.
\* Only a value that is itself a mapping is searched further.
hasFieldRecursive(data, field) ==
    \E key \in DOMAIN data :
        \/ key = field
        \/ IsMap(data[key]) /\ hasFieldRecursive(data[key].m, field)

\* HasField that looks at the keys of c.Data only.
HasField_RootOnly(c, field) == field \in DOMAIN c.Data

HasField(c, field) == hasFieldRecursive(c.Data, field)

RECURSIVE collectFieldValues(_, _)
\* The lists *values can hold after the call, one per visiting order.
collectFieldValues(data, field) ==
    LET RECURSIVE visit(_, _)
        visit(order, i) ==
            IF i > Len(order) THEN {<< >>}
            ELSE LET key == order[i]
                     val == data[key]
                     own == IF key = field THEN <<val>> ELSE << >>
                     nested == IF IsMap(val)
                               THEN collectFieldValues(val.m, field)
                               ELSE {<< >>}
                 IN  {own \o n \o rest : n \in nested, rest \in visit(order, i + 1)}
    IN  UNION {visit(order, 1) : order \in RangeOrders(data)}

GetAllFieldValues(c, field) == collectFieldValues(c.Data, field)

\* The string items of a sequence, each followed by one space, in order.
RECURSIVE stringItems(_)
stringItems(items) ==
    IF items = << >> THEN ""
    ELSE (IF IsString(Head(items)) THEN Head(items).s \o " " ELSE "")
            \o stringItems(Tail(items))

RECURSIVE collectContent(_)
\* The strings the builder can hold after the call, one per visiting order.
collectContent(data) ==
    LET RECURSIVE visit(_, _)
        visit(order, i) ==
            IF i > Len(order) THEN {""}
            ELSE LET val == data[order[i]]
                     written == CASE IsString(val) -> {val.s \o " "}
                                  [] IsMap(val) -> collectContent(val.m)
                                  [] IsSeq(val) -> {stringItems(val.items)}
                                  [] OTHER -> {""}
                 IN  {w \o rest : w \in written, rest \in visit(order, i + 1)}
    IN  UNION {visit(order, 1) : order \in RangeOrders(data)}

GetAllContent(c) == collectContent(c.Data)

RECURSIVE Split(_, _)
\* strings.Split(s, sep) for a separator of one character: the pieces of s
\* between the separators, empty pieces included.
Split(s, sep) ==
    LET at == {i \in 1..Len(s) : SubSeq(s, i, i) = sep}
    IN  IF at = {} THEN <<s>>
        ELSE LET first == CHOOSE i \in at : \A j \in at : i <= j
             IN  <<SubSeq(s, 1, first - 1)>>
                    \o Split(SubSeq(s, first + 1, Len(s)), sep)

\* GetValue that looks for the last segment of the path in every mapping.
GetValue_AnyDepth(c, path) ==
    LET parts == Split(path, ".")
        values == CHOOSE vs \in GetAllFieldValues(c, parts[Len(parts)]) : TRUE
    IN  IF Len(values) > 0 THEN [value |-> values[1], ok |-> TRUE]
        ELSE [value |-> NilV, ok |-> FALSE]

\* c.GetValue(path): the pair (value, found) of a walk along the segments of
\* the path from c.Data.
GetValue(c, path) ==
    LET parts == Split(path, ".")
        RECURSIVE walk(_, _)
        walk(current, i) ==
            IF i > Len(parts) THEN [value |-> NilV, ok |-> FALSE]
            ELSE IF parts[i] \in DOMAIN current
            THEN IF i = Len(parts)
                 THEN [value |-> current[parts[i]], ok |-> TRUE]
                 ELSE IF IsMap(current[parts[i]])
                 THEN walk(current[parts[i]].m, i + 1)
                 ELSE [value |-> NilV, ok |-> FALSE]
            ELSE [value |-> NilV, ok |-> FALSE]
    IN  walk(c.Data, 1)

----------------------------------------------------------------------------
(* Rule and Check (the types of scanner/parser.go) *)

\* A Check with every field at its Go zero value.
ZeroCheck ==
    [Type |-> "", Parameter |-> "", Parameters |-> << >>, Field |-> "",
     Fields |-> << >>, Patterns |-> << >>, Operator |-> "", Value |-> NilV,
     Min |-> 0, Max |-> 0, Condition |-> "", Conditions |-> << >>,
     Require |-> "", HasAny |-> << >>, MissingAll |-> << >>,
     Values |-> << >>, MaxSequences |-> 0, MaxLength |-> 0]

\* The rule with the given check and pattern scope; the metadata is what the
\* Finding copies.
MakeRule(check, fields) ==
    [ID |-> "R1", Name |-> "rule", Severity |-> "HIGH", Category |-> "cat",
     Description |-> "desc", Check |-> check, Recommendation |-> "rec",
     References |-> <<"ref">>, Fields |-> fields]

\* The nil *Finding.
NoFinding == [nil |-> TRUE]

\* The (violated, location) pair a check function returns.
Result(violated, location) == [violated |-> violated, location |-> location]

----------------------------------------------------------------------------
(* Library functions the checks call *)

\* Patterns of the universe that regexp does not compile; every other
\* pattern of the universe is a literal without metacharacters, with or
\* without "^" in front of it and "$" after it.
InvalidPatterns == {"("}

\* s contains the literal p.
Contains(s, p) ==
    \/ p = ""
    \/ \E i \in 1..(Len(s) - Len(p) + 1) : SubSeq(s, i, i + Len(p) - 1) = p

\* regexp.MatchString(pattern, s) with the error dropped: a search for the
\* literal anywhere in s, at the start of s after "^" and at the end of s
\* before "$"; a pattern that does not compile matches nothing.
MatchString(pattern, s) ==
    IF pattern \in InvalidPatterns THEN FALSE
    ELSE LET n == Len(pattern)
             atStart == n > 0 /\ SubSeq(pattern, 1, 1) = "^"
             atEnd == n > 0 /\ SubSeq(pattern, n, n) = "$"
             literal == SubSeq(pattern, IF atStart THEN 2 ELSE 1,
                                        IF atEnd THEN n - 1 ELSE n)
             k == Len(literal)
         IN  CASE atStart /\ atEnd -> s = literal
               [] atStart /\ ~atEnd -> k <= Len(s) /\ SubSeq(s, 1, k) = literal
               [] atEnd /\ ~atStart ->
                    k <= Len(s) /\ SubSeq(s, Len(s) - k + 1, Len(s)) = literal
               [] OTHER -> Contains(s, literal)

RECURSIVE Join(_, _)
\* strings.Join(elems, sep)
Join(elems, sep) ==
    IF elems = << >> THEN ""
    ELSE IF Len(elems) = 1 THEN elems[1]
    ELSE elems[1] \o sep \o Join(Tail(elems), sep)

\* The keys in the order fmt prints a map's keys (sorted).
KeyOrder == <<"api_key", "temperature">>

RECURSIVE Sprintf(_)
\* fmt.Sprintf("%v", v)
Sprintf(v) ==
    CASE v.t = "string" -> v.s
      [] v.t = "number" -> ToString(v.n)    \* integral values print without a point
      [] v.t = "bool" -> IF v.b THEN "true" ELSE "false"
      [] v.t = "nil" -> "<nil>"
      [] v.t = "seq" ->
            "[" \o Join([i \in DOMAIN v.items |-> Sprintf(v.items[i])], " ") \o "]"
      [] v.t = "map" ->
            LET keys == SelectSeq(KeyOrder, LAMBDA k : k \in DOMAIN v.m)
            IN  "map[" \o Join([i \in DOMAIN keys |->
                                  keys[i] \o ":" \o Sprintf(v.m[keys[i]])], " ")
                       \o "]"

\* toFloat: the number and true for a numeric value, else false.
toFloat(val) ==
    IF IsNumber(val) THEN [num |-> val.n, ok |-> TRUE] ELSE [num |-> 0, ok |-> FALSE]

----------------------------------------------------------------------------
(* The nine checks of scanner/rules.go.  Each operator gives the set of     *)
(* results the function can return, over the visiting orders of the maps.   *)

\* checkPatternMatch that also tests the strings a candidate sequence holds.
checkPatternMatch_SequenceItems(r, c) ==
    LET matches(str) ==
            \E i \in DOMAIN r.Check.Patterns : MatchString(r.Check.Patterns[i], str)
        hit(val) ==
            \/ IsString(val) /\ matches(val.s)
            \/ IsSeq(val) /\ \E k \in DOMAIN val.items :
                                IsString(val.items[k]) /\ matches(val.items[k].s)
        RECURSIVE fieldsFrom(_)
        fieldsFrom(i) ==
            IF i > Len(r.Fields) THEN {Result(FALSE, "")}
            ELSE UNION {IF \E j \in DOMAIN values : hit(values[j])
                        THEN {Result(TRUE, r.Fields[i])}
                        ELSE fieldsFrom(i + 1)
                            : values \in GetAllFieldValues(c, r.Fields[i])}
    IN  IF Len(r.Fields) > 0
        THEN fieldsFrom(1)
        ELSE {IF matches(content) THEN Result(TRUE, "config content")
                                  ELSE Result(FALSE, "")
                  : content \in GetAllContent(c)}

checkPatternMatch(r, c) ==
    LET matches(str) ==
            \E i \in DOMAIN r.Check.Patterns : MatchString(r.Check.Patterns[i], str)
        RECURSIVE fieldsFrom(_)
        fieldsFrom(i) ==
            IF i > Len(r.Fields) THEN {Result(FALSE, "")}
            ELSE UNION {IF \E j \in DOMAIN values :
                               IsString(values[j]) /\ matches(values[j].s)
                        THEN {Result(TRUE, r.Fields[i])}
                        ELSE fieldsFrom(i + 1)
                            : values \in GetAllFieldValues(c, r.Fields[i])}
    IN  IF Len(r.Fields) > 0
        THEN fieldsFrom(1)
        ELSE {IF matches(content) THEN Result(TRUE, "config content")
                                  ELSE Result(FALSE, "")
                  : content \in GetAllContent(c)}

\* checkSingleNumeric with the range test active whatever Min and Max are.
checkSingleNumeric_NoZeroGuard(param, check, c) ==
    LET outside(num) == num < check.Min \/ num > check.Max
    IN  {IF \E i \in DOMAIN values : IsNumber(values[i]) /\ outside(values[i].n)
         THEN Result(TRUE, param)
         ELSE Result(FALSE, "")
             : values \in GetAllFieldValues(c, param)}

\* checkSingleNumeric with a value of another type tested as the number 0
\* instead of skipped.
checkSingleNumeric_CoerceZero(param, check, c) ==
    LET outside(num) == num < check.Min \/ num > check.Max
        number(val) == IF IsNumber(val) THEN val.n ELSE 0
        violates(val) ==
            \/ (check.Min # 0 \/ check.Max # 0) /\ outside(number(val))
            \/ check.Condition = "any_value_exceeds" /\ outside(number(val))
    IN  {IF \E i \in DOMAIN values : violates(values[i])
         THEN Result(TRUE, param)
         ELSE Result(FALSE, "")
             : values \in GetAllFieldValues(c, param)}

\* checkSingleNumeric with a bound of 0 read as no bound on that side.
checkSingleNumeric_ZeroUnbounded(param, check, c) ==
    LET outside(num) == \/ check.Min # 0 /\ num < check.Min
                        \/ check.Max # 0 /\ num > check.Max
        violates(val) ==
            /\ IsNumber(val)
            /\ \/ (check.Min # 0 \/ check.Max # 0) /\ outside(val.n)
               \/ check.Condition = "any_value_exceeds" /\ outside(val.n)
    IN  {IF Len(values) = 0 THEN Result(FALSE, "")
         ELSE IF \E i \in DOMAIN values : violates(values[i])
              THEN Result(TRUE, param)
              ELSE Result(FALSE, "")
             : values \in GetAllFieldValues(c, param)}

checkSingleNumeric(param, check, c) ==
    LET outside(num) == num < check.Min \/ num > check.Max
        violates(val) ==
            /\ IsNumber(val)
            /\ \/ (check.Min # 0 \/ check.Max # 0) /\ outside(val.n)
               \/ check.Condition = "any_value_exceeds" /\ outside(val.n)
    IN  {IF Len(values) = 0 THEN Result(FALSE, "")
         ELSE IF \E i \in DOMAIN values : violates(values[i])
              THEN Result(TRUE, param)
              ELSE Result(FALSE, "")
             : values \in GetAllFieldValues(c, param)}

checkNumericRange_LastViolator(r, c) ==
    LET RECURSIVE paramsFrom(_)
        paramsFrom(i) ==
            IF i < 1 THEN {Result(FALSE, "")}
            ELSE UNION {IF res.violated THEN {res} ELSE paramsFrom(i - 1)
                            : res \in checkSingleNumeric(r.Check.Parameters[i],
                                                         r.Check, c)}
    IN  IF r.Check.Parameter # ""
        THEN checkSingleNumeric(r.Check.Parameter, r.Check, c)
        ELSE paramsFrom(Len(r.Check.Parameters))

\* checkNumericRange that goes on to the Parameters list when the single
\* Parameter is not violated.
checkNumericRange_ListAfterParameter(r, c) ==
    LET RECURSIVE paramsFrom(_)
        paramsFrom(i) ==
            IF i > Len(r.Check.Parameters) THEN {Result(FALSE, "")}
            ELSE UNION {IF res.violated THEN {res} ELSE paramsFrom(i + 1)
                            : res \in checkSingleNumeric(r.Check.Parameters[i],
                                                         r.Check, c)}
    IN  IF r.Check.Parameter # ""
        THEN UNION {IF res.violated THEN {res} ELSE paramsFrom(1)
                        : res \in checkSingleNumeric(r.Check.Parameter, r.Check, c)}
        ELSE paramsFrom(1)

checkNumericRange(r, c) ==
    LET RECURSIVE paramsFrom(_)
        paramsFrom(i) ==
            IF i > Len(r.Check.Parameters) THEN {Result(FALSE, "")}
            ELSE UNION {IF res.violated THEN {res} ELSE paramsFrom(i + 1)
                            : res \in checkSingleNumeric(r.Check.Parameters[i],
                                                         r.Check, c)}
    IN  IF r.Check.Parameter # ""
        THEN checkSingleNumeric(r.Check.Parameter, r.Check, c)
        ELSE paramsFrom(1)

checkMissingField(r, c) ==
    LET field == r.Check.Field
    IN  {IF ~HasField(c, field) THEN Result(TRUE, field) ELSE Result(FALSE, "")}

checkMissingFields(r, c) ==
    {IF \E i \in DOMAIN r.Check.Fields : HasField(c, r.Check.Fields[i])
     THEN Result(FALSE, "")
     ELSE Result(TRUE, Join(r.Check.Fields, ", "))}

checkFieldExists(r, c) ==
    LET field == r.Check.Field
    IN  {IF HasField(c, field) THEN Result(TRUE, field) ELSE Result(FALSE, "")}

checkCondition(condition, c) ==
    LET satisfies(val) ==
            CASE condition.Operator = "greater_than" ->
                    /\ toFloat(val).ok
                    /\ toFloat(condition.Value).ok
                    /\ toFloat(val).num > toFloat(condition.Value).num
              [] condition.Operator = "not_equals" ->
                    Sprintf(val) # Sprintf(condition.Value)
              [] condition.Operator = "equals" ->
                    Sprintf(val) = Sprintf(condition.Value)
              [] OTHER -> FALSE
    IN  {Len(values) # 0 /\ \E i \in DOMAIN values : satisfies(values[i])
             : values \in GetAllFieldValues(c, condition.Parameter)}

\* checkCombinedConditions with "both" read as "two or more".
checkCombinedConditions_BothAtLeastTwo(r, c) ==
    LET conditions == r.Check.Conditions
        require == r.Check.Require
        decide(metCount, locations) ==
            IF \/ require = "all" /\ metCount = Len(conditions)
               \/ require = "at_least_two" /\ metCount >= 2
               \/ require = "both" /\ metCount >= 2
               \/ require = "any" /\ metCount > 0
            THEN Result(TRUE, Join(locations, ", "))
            ELSE Result(FALSE, "")
        RECURSIVE conditionsFrom(_, _, _)
        conditionsFrom(i, metCount, locations) ==
            IF i > Len(conditions) THEN {decide(metCount, locations)}
            ELSE UNION {IF met
                        THEN conditionsFrom(i + 1, metCount + 1,
                                            Append(locations, conditions[i].Parameter))
                        ELSE conditionsFrom(i + 1, metCount, locations)
                            : met \in checkCondition(conditions[i], c)}
    IN  conditionsFrom(1, 0, << >>)

checkCombinedConditions(r, c) ==
    LET conditions == r.Check.Conditions
        require == r.Check.Require
        decide(metCount, locations) ==
            IF \/ require = "all" /\ metCount = Len(conditions)
               \/ require = "at_least_two" /\ metCount >= 2
               \/ require = "both" /\ metCount = 2
               \/ require = "any" /\ metCount > 0
            THEN Result(TRUE, Join(locations, ", "))
            ELSE Result(FALSE, "")
        RECURSIVE conditionsFrom(_, _, _)
        conditionsFrom(i, metCount, locations) ==
            IF i > Len(conditions) THEN {decide(metCount, locations)}
            ELSE UNION {IF met
                        THEN conditionsFrom(i + 1, metCount + 1,
                                            Append(locations, conditions[i].Parameter))
                        ELSE conditionsFrom(i + 1, metCount, locations)
                            : met \in checkCondition(conditions[i], c)}
    IN  conditionsFrom(1, 0, << >>)

checkConditionalMissing(r, c) ==
    LET hasAny == \E i \in DOMAIN r.Check.HasAny : HasField(c, r.Check.HasAny[i])
    IN  {IF ~hasAny THEN Result(FALSE, "")
         ELSE IF \E i \in DOMAIN r.Check.MissingAll :
                    HasField(c, r.Check.MissingAll[i])
              THEN Result(FALSE, "")
              ELSE Result(TRUE, Join(r.Check.MissingAll, ", "))}

checkFieldCheck(r, c) ==
    LET forbidden(val) ==
            \E j \in DOMAIN r.Check.Values : Sprintf(val) = Sprintf(r.Check.Values[j])
        RECURSIVE fieldsFrom(_)
        fieldsFrom(i) ==
            IF i > Len(r.Check.Fields) THEN {Result(FALSE, "")}
            ELSE UNION {IF \E j \in DOMAIN values : forbidden(values[j])
                        THEN {Result(TRUE, r.Check.Fields[i])}
                        ELSE fieldsFrom(i + 1)
                            : values \in GetAllFieldValues(c, r.Check.Fields[i])}
    IN  fieldsFrom(1)

\* checkStopSequenceComplexity with both limits applied whatever their value.
checkStopSequenceComplexity_LimitsAsGiven(r, c) ==
    LET field == r.Check.Field
        complex(val) ==
            CASE IsSeq(val) ->
                    \/ Len(val.items) > r.Check.MaxSequences
                    \/ \E i \in DOMAIN val.items :
                            /\ IsString(val.items[i])
                            /\ Len(val.items[i].s) > r.Check.MaxLength
              [] IsString(val) -> Len(val.s) > r.Check.MaxLength
              [] OTHER -> FALSE
    IN  {IF \E i \in DOMAIN values : complex(values[i])
         THEN Result(TRUE, field)
         ELSE Result(FALSE, "")
             : values \in GetAllFieldValues(c, field)}

checkStopSequenceComplexity(r, c) ==
    LET field == r.Check.Field
        complex(val) ==
            CASE IsSeq(val) ->
                    \/ r.Check.MaxSequences > 0
                            /\ Len(val.items) > r.Check.MaxSequences
                    \/ r.Check.MaxLength > 0
                            /\ \E i \in DOMAIN val.items :
                                    /\ IsString(val.items[i])
                                    /\ Len(val.items[i].s) > r.Check.MaxLength
              [] IsString(val) ->
                    r.Check.MaxLength > 0 /\ Len(val.s) > r.Check.MaxLength
              [] OTHER -> FALSE
    IN  {IF \E i \in DOMAIN values : complex(values[i])
         THEN Result(TRUE, field)
         ELSE Result(FALSE, "")
             : values \in GetAllFieldValues(c, field)}

\* The Finding CheckRule builds for a violated rule.
MakeFinding(r, location) ==
    [RuleID |-> r.ID, Name |-> r.Name, Severity |-> r.Severity,
     Category |-> r.Category, Description |-> r.Description,
     Location |-> location, Recommendation |-> r.Recommendation,
     References |-> r.References]

\* CheckRule with a rule of an unknown type reported as violated.
CheckRule_UnknownViolates(r, c) ==
    LET type == r.Check.Type
        results ==
            CASE type = "pattern_match" -> checkPatternMatch(r, c)
              [] type = "numeric_range" -> checkNumericRange(r, c)
              [] type = "missing_field" -> checkMissingField(r, c)
              [] type = "missing_fields" -> checkMissingFields(r, c)
              [] type = "field_exists" -> checkFieldExists(r, c)
              [] type = "combined_conditions" -> checkCombinedConditions(r, c)
              [] type = "conditional_missing" -> checkConditionalMissing(r, c)
              [] type = "field_check" -> checkFieldCheck(r, c)
              [] type = "stop_sequence_complexity" ->
                    checkStopSequenceComplexity(r, c)
              [] OTHER -> {Result(TRUE, "")}
    IN  {IF res.violated THEN MakeFinding(r, res.location) ELSE NoFinding
             : res \in results}


\* The results CheckRule can return: NoFinding, or the rule's Finding.
CheckRule(r, c) ==
    LET type == r.Check.Type
        results ==
            CASE type = "pattern_match" -> checkPatternMatch(r, c)
              [] type = "numeric_range" -> checkNumericRange(r, c)
              [] type = "missing_field" -> checkMissingField(r, c)
              [] type = "missing_fields" -> checkMissingFields(r, c)
              [] type = "field_exists" -> checkFieldExists(r, c)
              [] type = "combined_conditions" -> checkCombinedConditions(r, c)
              [] type = "conditional_missing" -> checkConditionalMissing(r, c)
              [] type = "field_check" -> checkFieldCheck(r, c)
              [] type = "stop_sequence_complexity" ->
                    checkStopSequenceComplexity(r, c)
              [] OTHER -> {Result(FALSE, "")}
    IN  {IF res.violated THEN MakeFinding(r, res.location) ELSE NoFinding
             : res \in results}

----------------------------------------------------------------------------
(* No Scanner, no scan and no command-line run *)

NoScanner == [nil |-> TRUE]

NoFrame == [fn |-> "none"]

NoExit == -1

\* No rules file was loaded and no file is being scanned.
NoScan ==
    /\ disk = << >>
    /\ scanner = NoScanner
    /\ frame = NoFrame

\* The evaluation is driven by a caller of the package, not by runScan.
NoRun ==
    /\ args = << >>
    /\ pc = "none"
    /\ rulesFile = ""
    /\ outputFormat = ""
    /\ configFiles = << >>
    /\ allResults = << >>
    /\ hasIssues = FALSE
    /\ stdout = << >>
    /\ stderr = << >>
    /\ exitCode = NoExit

----------------------------------------------------------------------------
(* Calls of the Config primitives *)

NoCall == [fn |-> "none"]

NoRule == [ID |-> ""]

InitConfig ==
    /\ config \in Configs
    /\ rule = NoRule
    /\ call = NoCall
    /\ ret = NilV
    /\ NoScan
    /\ NoRun

HasFieldCall(name) ==
    /\ call' = [fn |-> "HasField", field |-> name]
    /\ ret' = HasField(config, name)
    /\ UNCHANGED <<config, rule, scanVars, cliVars>>

GetAllFieldValuesCall(name) ==
    /\ call' = [fn |-> "GetAllFieldValues", field |-> name]
    /\ ret' \in GetAllFieldValues(config, name)
    /\ UNCHANGED <<config, rule, scanVars, cliVars>>

GetAllContentCall ==
    /\ call' = [fn |-> "GetAllContent"]
    /\ ret' \in GetAllContent(config)
    /\ UNCHANGED <<config, rule, scanVars, cliVars>>

\* The dotted paths a caller asks for: of one, two and three segments, with
\* an empty segment, and the empty path.
Paths ==
    {"", "temperature", "api_key", "top_p",
     "temperature.api_key", "temperature.temperature", "api_key.temperature",
     "temperature.top_p", "temperature.", ".temperature",
     "temperature.temperature.api_key", "temperature.api_key.temperature"}

GetValueCall(path) ==
    /\ call' = [fn |-> "GetValue", path |-> path]
    /\ ret' = GetValue(config, path)
    /\ UNCHANGED <<config, rule, scanVars, cliVars>>

NextConfig ==
    \/ \E name \in FieldNames : HasFieldCall(name)
    \/ \E name \in FieldNames : GetAllFieldValuesCall(name)
    \/ GetAllContentCall
    \/ \E path \in Paths : GetValueCall(path)

SpecConfig == InitConfig /\ [][NextConfig]_vars

----------------------------------------------------------------------------
(* Evaluating one rule against one configuration *)

NumericRules ==
    {MakeRule([ZeroCheck EXCEPT !.Type = "numeric_range", !.Parameter = p,
                                !.Parameters = ps, !.Min = lo, !.Max = hi,
                                !.Condition = cond], << >>)
        : p \in {"", "temperature"},
          ps \in {<< >>, <<"api_key">>, <<"top_p", "temperature">>,
                  <<"temperature", "api_key">>},
          lo \in {-1, 0, 1}, hi \in {0, 1},
          cond \in {"", "any_value_exceeds", "all_values"}}

PatternRules ==
    {MakeRule([ZeroCheck EXCEPT !.Type = "pattern_match", !.Patterns = ps], fs)
        : ps \in {<< >>, <<"x">>, <<"xy">>, <<"y x">>, <<"(">>, <<"(", "xy">>,
                  <<"x xy", "xy x">>, <<"xy$">>, <<"^x">>},
          fs \in {<< >>, <<"api_key">>, <<"top_p">>, <<"temperature", "api_key">>,
                  <<"api_key", "temperature">>}}

FieldLists ==
    {<< >>, <<"api_key">>, <<"top_p">>, <<"api_key", "temperature">>,
     <<"top_p", "temperature">>, <<"top_p", "">>}

PresenceRules ==
    {MakeRule([ZeroCheck EXCEPT !.Type = type, !.Field = f], << >>)
        : type \in {"missing_field", "field_exists"}, f \in FieldNames}
    \cup {MakeRule([ZeroCheck EXCEPT !.Type = "missing_fields", !.Fields = fs], << >>)
            : fs \in FieldLists}
    \cup {MakeRule([ZeroCheck EXCEPT !.Type = "conditional_missing",
                                     !.HasAny = has, !.MissingAll = missing], << >>)
            : has \in {<< >>, <<"api_key">>, <<"top_p", "temperature">>},
              missing \in {<< >>, <<"temperature">>, <<"top_p">>,
                           <<"top_p", "api_key">>}}

Cond(parameter, operator, value) ==
    [Parameter |-> parameter, Operator |-> operator, Value |-> value]

ConditionLists ==
    LET hot == Cond("temperature", "greater_than", NumV(1))
        key == Cond("api_key", "equals", StrV("xy"))
        other == Cond("api_key", "not_equals", StrV("x"))
        absent == Cond("top_p", "not_equals", StrV("x"))
        odd == Cond("temperature", "less_than", NumV(1))
    IN  {<< >>, <<hot>>, <<absent>>, <<odd>>, <<hot, key>>, <<key, absent>>,
         <<hot, key, other>>}

CombinedRules ==
    {MakeRule([ZeroCheck EXCEPT !.Type = "combined_conditions",
                                !.Conditions = cs, !.Require = req], << >>)
        : cs \in ConditionLists,
          req \in {"all", "any", "at_least_two", "both", ""}}

\* The rules that test one condition.
ConditionRules ==
    {MakeRule([ZeroCheck EXCEPT !.Type = "combined_conditions",
                                !.Conditions = <<Cond(p, op, v)>>,
                                !.Require = "any"], << >>)
        : p \in {"temperature", "top_p"},
          op \in {"greater_than", "equals", "not_equals", "less_than"},
          v \in {NumV(1), NumV(2), StrV("2"), StrV("x")}}

FieldCheckRules ==
    {MakeRule([ZeroCheck EXCEPT !.Type = "field_check", !.Fields = fs,
                                !.Values = vs], << >>)
        : fs \in {<< >>, <<"temperature">>, <<"api_key", "temperature">>},
          vs \in {<< >>, <<StrV("2")>>, <<NumV(2)>>, <<StrV("x"), BoolV(TRUE)>>}}

StopSequenceRules ==
    {MakeRule([ZeroCheck EXCEPT !.Type = "stop_sequence_complexity", !.Field = f,
                                !.MaxSequences = n, !.MaxLength = len], << >>)
        : f \in {"", "temperature"}, n \in {-1, 0, 1, 2}, len \in {-1, 0, 1, 2}}

UnknownRules ==
    {MakeRule([ZeroCheck EXCEPT !.Type = type, !.Field = "temperature"], << >>)
        : type \in {"", "regex_match"}}

Rules ==
    NumericRules \cup PatternRules \cup PresenceRules \cup CombinedRules
        \cup FieldCheckRules \cup StopSequenceRules \cup UnknownRules

\* One rule and one configuration, not yet evaluated.
InitWith(rules, configs) ==
    /\ config \in configs
    /\ rule \in rules
    /\ call = NoCall
    /\ ret = NilV
    /\ NoScan
    /\ NoRun

Init == InitWith(Rules, ConfigsOver({StrV("x"), StrV("xy"), NumV(2)}))

InitNumeric ==
    InitWith(NumericRules,
             ConfigsOver({NumV(n) : n \in Numbers} \cup {StrV("x"), BoolV(TRUE), NilV}))

InitPresence == InitWith(PresenceRules, ConfigsOver({StrV("x"), NumV(2), NilV}))

InitPattern == InitWith(PatternRules, ConfigsOver({StrV("x"), StrV("xy"), NumV(2)}))

InitCombined == InitWith(CombinedRules, ConfigsOver({StrV("x"), StrV("xy"), NumV(2)}))

InitCondition ==
    InitWith(ConditionRules, ConfigsOver({StrV("x"), NumV(1), NumV(2)}))

InitFieldCheck ==
    InitWith(FieldCheckRules, ConfigsOver({StrV("x"), NumV(2), BoolV(TRUE)}))

InitStopSequence ==
    InitWith(StopSequenceRules, ConfigsOver({StrV("x"), StrV("xy"), NumV(2)}))

\* CheckRule(rule, config); a rule can be evaluated any number of times.
CheckRuleCall ==
    /\ call' = [fn |-> "CheckRule"]
    /\ ret' \in CheckRule(rule, config)
    /\ UNCHANGED <<config, rule, scanVars, cliVars>>

Next == CheckRuleCall

Spec == Init /\ [][Next]_vars

SpecNumeric == InitNumeric /\ [][Next]_vars

SpecPresence == InitPresence /\ [][Next]_vars

SpecPattern == InitPattern /\ [][Next]_vars

SpecCombined == InitCombined /\ [][Next]_vars

SpecCondition == InitCondition /\ [][Next]_vars

SpecFieldCheck == InitFieldCheck /\ [][Next]_vars

SpecStopSequence == InitStopSequence /\ [][Next]_vars

----------------------------------------------------------------------------
(* The Scanner: NewScanner, ScanConfig and ScanFile of scanner/parser.go *)

MaxRules == 3

NoError == "<nil>"

NoConfig == [nil |-> TRUE]

\* What decoding a file gives: nothing, a configuration or a rules document.
Malformed == [kind |-> "malformed"]

ConfigDoc(data) == [kind |-> "config", data |-> data]

RulesDoc(rules) ==
    [kind |-> "rules", rules |-> [Version |-> "1.0.0", Rules |-> rules]]

\* The file systems that hold a document of docs at some of the paths.
DisksOver(paths, docs) == UNION {[held -> docs] : held \in SUBSET paths}

\* The parser the extension selects is applied to the bytes read.
ParseConfigFile(files, filePath) ==
    IF filePath \notin DOMAIN files
    THEN [config |-> NoConfig, err |-> "failed to read file"]
    ELSE IF files[filePath].kind = "malformed"
    THEN [config |-> NoConfig, err |-> "failed to parse"]
    ELSE [config |-> [Data |-> files[filePath].data, FilePath |-> filePath],
          err |-> NoError]

\* NewScanner with a rules file that cannot be decoded read as an empty
\* rules document.
NewScanner_EmptyWhenMalformed(files, path) ==
    IF path \notin DOMAIN files
    THEN [s |-> NoScanner, err |-> "failed to read rules file"]
    ELSE IF files[path].kind = "malformed"
    THEN [s |-> [rules |-> [Version |-> "", Rules |-> << >>]], err |-> NoError]
    ELSE [s |-> [rules |-> files[path].rules], err |-> NoError]

NewScanner(files, path) ==
    IF path \notin DOMAIN files
    THEN [s |-> NoScanner, err |-> "failed to read rules file"]
    ELSE IF files[path].kind = "malformed"
    THEN [s |-> NoScanner, err |-> "failed to parse rules file"]
    ELSE [s |-> [rules |-> files[path].rules], err |-> NoError]

\* ScanConfig with the loop left at the first Finding.
ScanConfig_FirstFindingOnly(s, c) ==
    LET rules == s.rules.Rules
        RECURSIVE rulesFrom(_, _)
        rulesFrom(i, findings) ==
            IF i > Len(rules) THEN {findings}
            ELSE UNION {IF finding # NoFinding
                        THEN {Append(findings, finding)}
                        ELSE rulesFrom(i + 1, findings)
                            : finding \in CheckRule(rules[i], c)}
    IN  rulesFrom(1, << >>)

\* The findings ScanConfig can return.
ScanConfig(s, c) ==
    LET rules == s.rules.Rules
        RECURSIVE rulesFrom(_, _)
        rulesFrom(i, findings) ==
            IF i > Len(rules) THEN {findings}
            ELSE UNION {rulesFrom(i + 1, IF finding # NoFinding
                                         THEN Append(findings, finding)
                                         ELSE findings)
                            : finding \in CheckRule(rules[i], c)}
    IN  rulesFrom(1, << >>)

WithID(r, id) == [r EXCEPT !.ID = id]

\* The two rules of the scanner's test, a pattern over the whole content, a
\* required field and a rule of a type CheckRule does not know.
ScanRulePool ==
    {WithID(MakeRule([ZeroCheck EXCEPT !.Type = "numeric_range",
                                       !.Parameter = "temperature",
                                       !.Min = 0, !.Max = 1], << >>), "TEST_001"),
     WithID(MakeRule([ZeroCheck EXCEPT !.Type = "pattern_match",
                                       !.Patterns = <<"xy">>], <<"api_key">>),
            "TEST_002"),
     WithID(MakeRule([ZeroCheck EXCEPT !.Type = "pattern_match",
                                       !.Patterns = <<"y x">>], << >>), "TEST_003"),
     WithID(MakeRule([ZeroCheck EXCEPT !.Type = "missing_field",
                                       !.Field = "api_key"], << >>), "TEST_004"),
     WithID(MakeRule([ZeroCheck EXCEPT !.Type = "regex_match",
                                       !.Field = "temperature"], << >>), "TEST_005")}

\* The sequences of at most MaxRules different rules.
RuleSets ==
    UNION {{rules \in [1..n -> ScanRulePool] :
                \A i, j \in 1..n : rules[i] = rules[j] => i = j}
            : n \in 0..MaxRules}

ScanData ==
    {("temperature" :> NumV(2)) @@ ("api_key" :> StrV("xy")),
     ("temperature" :> NumV(1)),
     ("temperature" :> StrV("x")) @@ ("api_key" :> StrV("xy")),
     ("api_key" :> StrV("x")),
     << >>}

ScanPaths == {"bad.json", "good.yaml"}

InitScan ==
    /\ disk \in {d \in DisksOver(ScanPaths,
                                  {Malformed} \cup {ConfigDoc(data) : data \in ScanData}) :
                    "good.yaml" \in DOMAIN d
                        => d["good.yaml"] \in {Malformed, ConfigDoc(<< >>)}}
    /\ scanner \in {NewScanner("rules.yaml" :> RulesDoc(rules), "rules.yaml").s
                        : rules \in RuleSets}
    /\ frame = NoFrame
    /\ config = NoConfig
    /\ rule = NoRule
    /\ call = NoCall
    /\ ret = NilV
    /\ NoRun

\* s.ScanConfig(c), by a caller that built c itself.
ScanConfigCall(c) ==
    /\ frame = NoFrame
    /\ call' = [fn |-> "ScanConfig"]
    /\ config' = c
    /\ ret' \in ScanConfig(scanner, c)
    /\ UNCHANGED <<rule, scanVars, cliVars>>

\* ScanFile with the file name kept in the result of a failed parse.
ScanFileCall_KeepsFileName(filePath) ==
    /\ frame = NoFrame
    /\ call' = [fn |-> "ScanFile", filePath |-> filePath]
    /\ LET parsed == ParseConfigFile(disk, filePath)
       IN  IF parsed.err # NoError
           THEN /\ ret' = [result |-> [File |-> filePath, Findings |-> << >>],
                           err |-> "failed to parse config file: " \o parsed.err]
                /\ UNCHANGED <<config, frame>>
           ELSE /\ ret' = NilV
                /\ config' = parsed.config
                /\ frame' = [fn |-> "ScanFile", filePath |-> filePath,
                             next |-> 1, findings |-> << >>]
    /\ UNCHANGED <<rule, disk, scanner>>

\* s.ScanFile(filePath) up to its loop: the file is parsed, and the call
\* returns at once when the parser fails.
ScanFileCall(filePath) ==
    /\ frame = NoFrame
    /\ call' = [fn |-> "ScanFile", filePath |-> filePath]
    /\ LET parsed == ParseConfigFile(disk, filePath)
       IN  IF parsed.err # NoError
           THEN /\ ret' = [result |-> [File |-> "", Findings |-> << >>],
                           err |-> "failed to parse config file: " \o parsed.err]
                /\ UNCHANGED <<config, frame>>
           ELSE /\ ret' = NilV
                /\ config' = parsed.config
                /\ frame' = [fn |-> "ScanFile", filePath |-> filePath,
                             next |-> 1, findings |-> << >>]
    /\ UNCHANGED <<rule, disk, scanner>>

\* One turn of ScanFile's loop, with the newest Finding put first.
ScanFileRule_NewestFirst ==
    /\ frame # NoFrame
    /\ frame.next <= Len(scanner.rules.Rules)
    /\ rule' = scanner.rules.Rules[frame.next]
    /\ call' = [fn |-> "CheckRule"]
    /\ ret' \in CheckRule(rule', config)
    /\ frame' = [frame EXCEPT !.next = @ + 1,
                              !.findings = IF ret' # NoFinding
                                           THEN <<ret'>> \o @ ELSE @]
    /\ UNCHANGED <<config, disk, scanner, cliVars>>

\* One turn of ScanFile's loop: CheckRule on the next rule of the Scanner.
ScanFileRule ==
    /\ frame # NoFrame
    /\ frame.next <= Len(scanner.rules.Rules)
    /\ rule' = scanner.rules.Rules[frame.next]
    /\ call' = [fn |-> "CheckRule"]
    /\ ret' \in CheckRule(rule', config)
    /\ frame' = [frame EXCEPT !.next = @ + 1,
                              !.findings = IF ret' # NoFinding
                                           THEN Append(@, ret') ELSE @]
    /\ UNCHANGED <<config, disk, scanner, cliVars>>

\* ScanFile returns the findings of its loop.
ScanFileReturn ==
    /\ frame # NoFrame
    /\ frame.next > Len(scanner.rules.Rules)
    /\ call' = [fn |-> "ScanFile", filePath |-> frame.filePath]
    /\ ret' = [result |-> [File |-> frame.filePath, Findings |-> frame.findings],
               err |-> NoError]
    /\ frame' = NoFrame
    /\ UNCHANGED <<config, rule, disk, scanner, cliVars>>

NextScan ==
    \/ \E data \in ScanData :
            ScanConfigCall([Data |-> data, FilePath |-> "config.json"])
    \/ \E filePath \in ScanPaths : ScanFileCall(filePath) /\ UNCHANGED cliVars
    \/ ScanFileRule
    \/ ScanFileReturn

SpecScan == InitScan /\ [][NextScan]_vars

----------------------------------------------------------------------------
(* The command line: runScan of the paramguard command *)

MaxArgs == 3

\* The flag loop of runScan: what it leaves in its locals, or the error it
\* reports.
parseFlags(a) ==
    LET RECURSIVE flagsFrom(_, _, _, _)
        flagsFrom(i, rules, format, configs) ==
            IF i > Len(a)
            THEN [err |-> NoError, rulesFile |-> rules, outputFormat |-> format,
                  configFiles |-> configs]
            ELSE IF a[i] = "--rules"
            THEN IF i + 1 > Len(a)
                 THEN [err |-> "Error: --rules requires a file path"]
                 ELSE flagsFrom(i + 2, a[i + 1], format, configs)
            ELSE IF a[i] = "--format"
            THEN IF i + 1 > Len(a)
                 THEN [err |-> "Error: --format requires a value (text or json)"]
                 ELSE flagsFrom(i + 2, rules, a[i + 1], configs)
            ELSE flagsFrom(i + 1, rules, format, Append(configs, a[i]))
    IN  flagsFrom(1, "", "", << >>)

Tokens == {"--rules", "custom.yaml", "--format", "json", "bad.json", "good.yaml"}

\* The argument lists of at most MaxArgs tokens in which custom.yaml is the
\* rules file and nothing else.
ArgLists ==
    {a \in UNION {[1..n -> Tokens] : n \in 0..MaxArgs} :
        LET parsed == parseFlags(a)
        IN  parsed.err = NoError
                => /\ parsed.rulesFile \in {"", "custom.yaml"}
                   /\ \A i \in DOMAIN parsed.configFiles :
                        parsed.configFiles[i] # "custom.yaml"}

\* rules.yaml and custom.yaml hold rules, bad.json and good.yaml hold
\* configurations; some of them are missing or cannot be decoded.
CommandDisks ==
    LET rules == CHOOSE rs \in RuleSets :
                    /\ Len(rs) = 2
                    /\ rs[1].ID = "TEST_001"
                    /\ rs[2].ID = "TEST_002"
        custom == CHOOSE rs \in RuleSets : Len(rs) = 1 /\ rs[1].ID = "TEST_004"
        vulnerable == ("temperature" :> NumV(2)) @@ ("api_key" :> StrV("xy"))
    IN  {d \in DisksOver({"rules.yaml", "custom.yaml", "bad.json", "good.yaml"},
                         {Malformed, RulesDoc(rules), RulesDoc(custom)}
                            \cup {ConfigDoc(data) : data \in ScanData}) :
            /\ {"custom.yaml", "bad.json", "good.yaml"} \subseteq DOMAIN d
            /\ "rules.yaml" \in DOMAIN d
                    => d["rules.yaml"] \in {Malformed, RulesDoc(rules)}
            /\ d["custom.yaml"] \in {Malformed, RulesDoc(custom)}
            /\ d["bad.json"] \in {Malformed, ConfigDoc(vulnerable),
                                    ConfigDoc("temperature" :> NumV(1))}
            /\ d["good.yaml"] \in {ConfigDoc("temperature" :> NumV(1)),
                                     ConfigDoc("api_key" :> StrV("x"))}}

\* "paramguard scan" was started with the arguments args.
InitCommand ==
    /\ args \in ArgLists
    /\ disk \in CommandDisks
    /\ pc = "start"
    /\ rulesFile = ""
    /\ outputFormat = ""
    /\ configFiles = << >>
    /\ allResults = << >>
    /\ hasIssues = FALSE
    /\ stdout = << >>
    /\ stderr = << >>
    /\ exitCode = NoExit
    /\ scanner = NoScanner
    /\ frame = NoFrame
    /\ config = NoConfig
    /\ rule = NoRule
    /\ call = NoCall
    /\ ret = NilV

\* os.Exit(1) after a message on standard error.
Fail(message) ==
    /\ stderr' = Append(stderr, message)
    /\ exitCode' = 1
    /\ pc' = "exited"

\* runScan up to the loading of the rules: the arguments are read.
ParseFlags ==
    /\ pc = "start"
    /\ LET parsed == parseFlags(args)
       IN  IF Len(args) = 0
           THEN /\ Fail("Error: No config files specified")
                /\ UNCHANGED <<rulesFile, outputFormat, configFiles>>
           ELSE IF parsed.err # NoError
           THEN /\ Fail(parsed.err)
                /\ UNCHANGED <<rulesFile, outputFormat, configFiles>>
           ELSE IF Len(parsed.configFiles) = 0
           THEN /\ Fail("Error: No config files specified")
                /\ UNCHANGED <<rulesFile, outputFormat, configFiles>>
           ELSE /\ rulesFile' = IF parsed.rulesFile = "" THEN "rules.yaml"
                                                          ELSE parsed.rulesFile
                /\ outputFormat' = IF parsed.outputFormat = "" THEN "text"
                                                                ELSE parsed.outputFormat
                /\ configFiles' = parsed.configFiles
                /\ pc' = "load"
                /\ UNCHANGED <<stderr, exitCode>>
    /\ UNCHANGED <<args, allResults, hasIssues, stdout, config, rule, call, ret,
                   scanVars>>

\* The rules are loaded, or the run ends.
LoadRules ==
    /\ pc = "load"
    /\ call' = [fn |-> "NewScanner", rulesFile |-> rulesFile]
    /\ ret' = NewScanner(disk, rulesFile)
    /\ scanner' = ret'.s
    /\ IF ret'.err # NoError
       THEN Fail("Error loading rules: " \o ret'.err)
       ELSE pc' = "scan" /\ UNCHANGED <<stderr, exitCode>>
    /\ UNCHANGED <<args, rulesFile, outputFormat, configFiles, allResults,
                   hasIssues, stdout, config, rule, disk, frame>>

\* The loop over the files calls ScanFile on the next file.
ScanNextFile ==
    /\ pc = "scan"
    /\ Len(allResults) < Len(configFiles)
    /\ ScanFileCall(configFiles[Len(allResults) + 1])
    /\ pc' = "called"
    /\ UNCHANGED <<args, rulesFile, outputFormat, configFiles, allResults,
                   hasIssues, stdout, stderr, exitCode>>

\* KeepResult with hasIssues set by the last file alone.
KeepResult_LastFileDecides ==
    /\ pc = "called"
    /\ frame = NoFrame
    /\ IF ret.err # NoError
       THEN /\ Fail("Error scanning " \o call.filePath \o ": " \o ret.err)
            /\ UNCHANGED <<allResults, hasIssues>>
       ELSE /\ allResults' = Append(allResults, ret.result)
            /\ hasIssues' = (Len(ret.result.Findings) > 0)
            /\ pc' = "scan"
            /\ UNCHANGED <<stderr, exitCode>>
    /\ UNCHANGED <<args, rulesFile, outputFormat, configFiles, stdout, config,
                   rule, call, ret, scanVars>>

\* KeepResult with the results kept so far written when a file fails.
KeepResult_WritesOnError ==
    /\ pc = "called"
    /\ frame = NoFrame
    /\ IF ret.err # NoError
       THEN /\ Fail("Error scanning " \o call.filePath \o ": " \o ret.err)
            /\ stdout' = stdout \o allResults
            /\ UNCHANGED <<allResults, hasIssues>>
       ELSE /\ allResults' = Append(allResults, ret.result)
            /\ hasIssues' = (hasIssues \/ Len(ret.result.Findings) > 0)
            /\ pc' = "scan"
            /\ UNCHANGED <<stdout, stderr, exitCode>>
    /\ UNCHANGED <<args, rulesFile, outputFormat, configFiles, config,
                   rule, call, ret, scanVars>>

\* ScanFile has returned: the run ends on an error, the result is kept
\* otherwise.
KeepResult ==
    /\ pc = "called"
    /\ frame = NoFrame
    /\ IF ret.err # NoError
       THEN /\ Fail("Error scanning " \o call.filePath \o ": " \o ret.err)
            /\ UNCHANGED <<allResults, hasIssues>>
       ELSE /\ allResults' = Append(allResults, ret.result)
            /\ hasIssues' = (hasIssues \/ Len(ret.result.Findings) > 0)
            /\ pc' = "scan"
            /\ UNCHANGED <<stderr, exitCode>>
    /\ UNCHANGED <<args, rulesFile, outputFormat, configFiles, stdout, config,
                   rule, call, ret, scanVars>>

\* After the loop the results are written and the run ends; the encoder of
\* the JSON output can fail to write.
Output ==
    /\ pc = "scan"
    /\ Len(allResults) = Len(configFiles)
    /\ \E written \in IF outputFormat = "json" THEN BOOLEAN ELSE {TRUE} :
            IF written
            THEN /\ stdout' = stdout \o allResults
                 /\ exitCode' = IF hasIssues THEN 1 ELSE 0
                 /\ pc' = "exited"
                 /\ UNCHANGED stderr
            ELSE /\ Fail("Error encoding JSON")
                 /\ UNCHANGED stdout
    /\ UNCHANGED <<args, rulesFile, outputFormat, configFiles, allResults,
                   hasIssues, config, rule, call, ret, scanVars>>

NextCommand ==
    \/ ParseFlags
    \/ LoadRules
    \/ ScanNextFile
    \/ ScanFileRule
    \/ ScanFileReturn
    \/ KeepResult
    \/ Output

SpecCommand == InitCommand /\ [][NextCommand]_vars

----------------------------------------------------------------------------
(* What a configuration tree holds, whatever way a mapping is reached *)

RECURSIVE SumOver(_, _)
SumOver(f, S) ==
    IF S = {} THEN 0
    ELSE LET x == CHOOSE y \in S : TRUE
         IN  f[x] + SumOver(f, S \ {x})

RECURSIVE Holders(_, _)
\* The number of mappings inside v, v included, that hold the key name:
\* mappings that are values of mappings and mappings that are items of
\* sequences alike.
Holders(v, name) ==
    CASE IsMap(v) ->
            (IF name \in DOMAIN v.m THEN 1 ELSE 0)
                + SumOver([k \in DOMAIN v.m |-> Holders(v.m[k], name)], DOMAIN v.m)
      [] IsSeq(v) ->
            SumOver([i \in DOMAIN v.items |-> Holders(v.items[i], name)],
                    DOMAIN v.items)
      [] OTHER -> 0

RECURSIVE TreeValues(_, _)
\* The values held under the key name by any mapping inside v, v included.
TreeValues(v, name) ==
    CASE IsMap(v) ->
            (IF name \in DOMAIN v.m THEN {v.m[name]} ELSE {})
                \cup UNION {TreeValues(v.m[k], name) : k \in DOMAIN v.m}
      [] IsSeq(v) -> UNION {TreeValues(v.items[i], name) : i \in DOMAIN v.items}
      [] OTHER -> {}

\* The whole tree of the configuration.
Tree == MapV(config.Data)

Evaluated == call.fn = "CheckRule"

Found == ret # NoFinding

\* C2: HasField(name) is true iff some mapping anywhere in the tree, however
\* it is reached, holds a key equal to name.
C2_HasFieldWholeTree ==
    call.fn = "HasField" =>
        (ret <=> Holders(Tree, call.field) > 0)

\* C3: GetAllFieldValues(name) returns one value per mapping of the tree
\* that holds the key name.
C3_OneValuePerOccurrence ==
    call.fn = "GetAllFieldValues" =>
        Len(ret) = Holders(Tree, call.field)

\* C1: CheckRule is deterministic: two evaluations of the same rule on the
\* same configuration return the same result, whatever order the keys of
\* each mapping are visited in.
C1_Deterministic ==
    [][(Evaluated /\ call'.fn = "CheckRule") => ret' = ret]_vars

\* The structurally incomplete checks that C4 lists.
Incomplete(r) ==
    LET check == r.Check
    IN  \/ check.Type = "numeric_range" /\ check.Parameter = ""
                /\ check.Parameters = << >>
        \/ check.Type \in {"missing_field", "field_exists"} /\ check.Field = ""
        \/ check.Type = "missing_fields" /\ check.Fields = << >>
        \/ check.Type = "combined_conditions" /\ check.Conditions = << >>
        \/ check.Type = "conditional_missing"
                /\ (check.HasAny = << >> \/ check.MissingAll = << >>)
        \/ check.Type = "pattern_match" /\ check.Patterns = << >>

\* C4: a structurally incomplete check never yields a Finding.
C4_IncompleteNeverViolates ==
    (Evaluated /\ Incomplete(rule)) => ~Found

Outside(v) == IsNumber(v) /\ (v.n < rule.Check.Min \/ v.n > rule.Check.Max)

\* C6: a numeric_range rule with a Parameter and a non-zero bound yields a
\* Finding iff some number held under the parameter at any depth is outside
\* [Min, Max] (bounds inclusive); its location is the parameter name.
C6_NumericRangeIff ==
    (Evaluated /\ rule.Check.Type = "numeric_range" /\ rule.Check.Parameter # ""
        /\ (rule.Check.Min # 0 \/ rule.Check.Max # 0))
    => /\ Found <=> \E v \in TreeValues(Tree, rule.Check.Parameter) : Outside(v)
       /\ Found => ret.Location = rule.Check.Parameter

\* The parameters a numeric_range rule looks at.
Targets(check) ==
    IF check.Parameter # "" THEN {check.Parameter}
    ELSE {check.Parameters[i] : i \in DOMAIN check.Parameters}

RECURSIVE MapValues(_, _)
\* The values held under the key name by the mapping v or by a mapping
\* nested in it through mappings only.
MapValues(v, name) ==
    IF IsMap(v)
    THEN (IF name \in DOMAIN v.m THEN {v.m[name]} ELSE {})
            \cup UNION {MapValues(v.m[k], name) : k \in DOMAIN v.m}
    ELSE {}

\* C7: in numeric_range a string, boolean, null, sequence or mapping is never
\* itself a violation: when no value under the rule's parameters is a number
\* there is no Finding, whatever Min, Max and Condition are; and a number
\* outside an active range, held under a parameter of the rule by the root or
\* by a mapping nested in it, gives a Finding whatever values of other types
\* the parameter also has.
C7_NonNumericNeverViolates ==
    (Evaluated /\ rule.Check.Type = "numeric_range")
    => /\ (\A p \in Targets(rule.Check) :
              \A v \in TreeValues(Tree, p) : ~IsNumber(v)) => ~Found
       /\ (/\ rule.Check.Min # 0 \/ rule.Check.Max # 0
           /\ \E p \in Targets(rule.Check) :
                \E v \in MapValues(Tree, p) : Outside(v))
          => Found

\* A rule whose range excludes 0 was evaluated on a configuration whose only
\* values under the parameter are a string and a nested non-number, and gave
\* no Finding.
C7_Witness ==
    /\ Evaluated
    /\ rule.Check.Type = "numeric_range"
    /\ rule.Check.Parameter = "temperature"
    /\ rule.Check.Min = 1
    /\ "temperature" \in DOMAIN config.Data
    /\ IsString(config.Data["temperature"])
    /\ Cardinality(TreeValues(Tree, "temperature")) > 1
    /\ \A v \in TreeValues(Tree, "temperature") : ~IsNumber(v)
    /\ ~Found

\* The rule that differs from r in its check type only.
WithType(r, type) == [r EXCEPT !.Check.Type = type]

\* C8: exactly one of missing_field(F) and field_exists(F) yields a Finding:
\* missing_field iff no mapping of the tree holds F, field_exists iff some
\* mapping of the tree holds F; the location is F.
C8_MissingFieldInverse ==
    (Evaluated /\ rule.Check.Type \in {"missing_field", "field_exists"})
    => LET present == Holders(Tree, rule.Check.Field) > 0
           inverse == IF rule.Check.Type = "missing_field" THEN "field_exists"
                                                           ELSE "missing_field"
       IN  /\ Found <=> (IF rule.Check.Type = "missing_field" THEN ~present
                                                              ELSE present)
           /\ Found => ret.Location = rule.Check.Field
           /\ \A other \in CheckRule(WithType(rule, inverse), config) :
                Found <=> other = NoFinding

\* Some listed pattern matches the string str.
Listed(str) ==
    \E i \in DOMAIN rule.Check.Patterns : MatchString(rule.Check.Patterns[i], str)

\* Some string held under the key field, at any depth, matches a listed pattern.
Hit(field) == \E v \in TreeValues(Tree, field) : IsString(v) /\ Listed(v.s)

\* C9: a pattern_match rule with Fields yields a Finding iff some value under
\* a listed key, at any depth, matches a listed pattern, located at the first
\* such field of the list; a rule without Fields yields a Finding iff a
\* pattern matches the content corpus, located at "config content".
C9_PatternScope ==
    (Evaluated /\ rule.Check.Type = "pattern_match")
    => IF Len(rule.Fields) > 0
       THEN /\ Found <=> \E i \in DOMAIN rule.Fields : Hit(rule.Fields[i])
            /\ Found => \E i \in DOMAIN rule.Fields :
                            /\ ret.Location = rule.Fields[i]
                            /\ Hit(rule.Fields[i])
                            /\ \A j \in 1..(i - 1) : ~Hit(rule.Fields[j])
       ELSE /\ Found => \E content \in GetAllContent(config) : Listed(content)
            /\ ~Found => \E content \in GetAllContent(config) : ~Listed(content)
            /\ Found => ret.Location = "config content"

\* C10: a missing_fields rule yields a Finding iff no mapping of the tree
\* holds any field of Check.Fields; its location is the field list joined by
\* commas in declaration order.
C10_MissingFieldsAllAbsent ==
    (Evaluated /\ rule.Check.Type = "missing_fields")
    => /\ Found <=> \A i \in DOMAIN rule.Check.Fields :
                        Holders(Tree, rule.Check.Fields[i]) = 0
       /\ Found => ret.Location = Join(rule.Check.Fields, ", ")


\* The condition at index i of the evaluated rule is satisfied by the
\* configuration.
Satisfied(i) == TRUE \in checkCondition(rule.Check.Conditions[i], config)

\* The parameter names of the satisfied conditions, in declaration order.
SatisfiedParameters ==
    LET conditions == rule.Check.Conditions
        met == SelectSeq([i \in DOMAIN conditions |-> i], Satisfied)
    IN  [k \in DOMAIN met |-> conditions[met[k]].Parameter]

\* C11: a combined_conditions rule yields a Finding iff the number n of its
\* satisfied conditions meets Require: "all" iff n is the number of declared
\* conditions, "any" iff n >= 1, "at_least_two" iff n >= 2, "both" iff n = 2;
\* the location of the Finding is the satisfied conditions' parameter names
\* joined by commas in declaration order.
C11_CombinedRequire ==
    (/\ Evaluated
     /\ rule.Check.Type = "combined_conditions"
     /\ rule.Check.Require \in {"all", "any", "at_least_two", "both"})
    => LET n == Len(SatisfiedParameters)
           require == rule.Check.Require
       IN  /\ Found <=> CASE require = "all" -> n = Len(rule.Check.Conditions)
                           [] require = "any" -> n >= 1
                           [] require = "at_least_two" -> n >= 2
                           [] require = "both" -> n = 2
           /\ Found => ret.Location = Join(SatisfiedParameters, ", ")

\* A rule that requires "all" of its three conditions was evaluated on a
\* configuration that satisfies the three, and gave a Finding that names the
\* three parameters.
C11_Witness ==
    /\ Evaluated
    /\ rule.Check.Type = "combined_conditions"
    /\ rule.Check.Require = "all"
    /\ Len(rule.Check.Conditions) = 3
    /\ Len(SatisfiedParameters) = 3
    /\ Found
    /\ ret.Location = "temperature, api_key, api_key"


\* C19: a conditional_missing rule yields a Finding iff some mapping of the
\* tree holds a field of HasAny and no mapping of the tree holds any field of
\* MissingAll; the location of the Finding is the MissingAll list joined by
\* commas.
C19_ConditionalMissing ==
    (Evaluated /\ rule.Check.Type = "conditional_missing")
    => LET hasAny == \E i \in DOMAIN rule.Check.HasAny :
                          Holders(Tree, rule.Check.HasAny[i]) > 0
           missingAll == \A i \in DOMAIN rule.Check.MissingAll :
                              Holders(Tree, rule.Check.MissingAll[i]) = 0
       IN  /\ Found <=> (hasAny /\ missingAll)
           /\ Found => ret.Location = Join(rule.Check.MissingAll, ", ")


\* The limit is applied whatever its value.
AsGiven(limit) == TRUE

\* The limit is applied only when it is greater than 0.
WhenPositive(limit) == limit > 0

\* The value v is a sequence longer than MaxSequences or with a string item
\* longer than MaxLength, or a string longer than MaxLength, counting the
\* limits that Applied selects.
TooComplex(v, check, Applied(_)) ==
    \/ /\ IsSeq(v)
       /\ \/ Applied(check.MaxSequences) /\ Len(v.items) > check.MaxSequences
          \/ /\ Applied(check.MaxLength)
             /\ \E i \in DOMAIN v.items :
                    IsString(v.items[i]) /\ Len(v.items[i].s) > check.MaxLength
    \/ /\ IsString(v)
       /\ Applied(check.MaxLength)
       /\ Len(v.s) > check.MaxLength

\* C20 as stated: a stop_sequence_complexity rule on field F yields a Finding
\* located at F iff a value of F is a sequence longer than MaxSequences or
\* with a string item longer than MaxLength, or a string longer than
\* MaxLength, the limits being compared as given, 0 included.
C20_LimitsAsGiven ==
    (Evaluated /\ rule.Check.Type = "stop_sequence_complexity")
    => /\ Found <=> \E v \in MapValues(Tree, rule.Check.Field) :
                        TooComplex(v, rule.Check, AsGiven)
       /\ Found => ret.Location = rule.Check.Field

\* C20 amended: the same, with a limit compared only when it is greater
\* than 0; a limit of 0 or less switches its test off.
C20_PositiveLimits ==
    (Evaluated /\ rule.Check.Type = "stop_sequence_complexity")
    => /\ Found <=> \E v \in MapValues(Tree, rule.Check.Field) :
                        TooComplex(v, rule.Check, WhenPositive)
       /\ Found => ret.Location = rule.Check.Field

\* A rule with both limits 0 was evaluated on a configuration whose field
\* holds a sequence of two non-empty strings, and gave no Finding.
C20_Witness ==
    /\ Evaluated
    /\ rule.Check.Type = "stop_sequence_complexity"
    /\ rule.Check.MaxSequences = 0
    /\ rule.Check.MaxLength = 0
    /\ rule.Check.Field \in DOMAIN config.Data
    /\ IsSeq(config.Data[rule.Check.Field])
    /\ Len(config.Data[rule.Check.Field].items) = 2
    /\ \A i \in 1..2 : IsString(config.Data[rule.Check.Field].items[i])
    /\ ~Found

----------------------------------------------------------------------------
(* Scans *)

\* The check kinds CheckRule knows.
KnownTypes ==
    {"pattern_match", "numeric_range", "missing_field", "missing_fields",
     "field_exists", "combined_conditions", "conditional_missing", "field_check",
     "stop_sequence_complexity"}

KnownType(r) == r.Check.Type \in KnownTypes

\* The Scanner s without its rules of an unknown type.
KnownOnly(s) == [s EXCEPT !.rules.Rules = SelectSeq(@, KnownType)]

\* The last call was ScanFile and it has returned without error.
Scanned == call.fn = "ScanFile" /\ frame = NoFrame /\ ret.err = NoError

\* C12: a rule of an unknown type yields no Finding, and a scan gives the
\* Findings, in the order, that the same rule set without its rules of an
\* unknown type gives, wherever those rules stand in the set.
C12_UnknownTypeInert ==
    /\ (call.fn = "CheckRule" /\ ~KnownType(rule)) => ret = NoFinding
    /\ call.fn = "ScanConfig"
        => /\ ret \in ScanConfig(KnownOnly(scanner), config)
           /\ ScanConfig(scanner, config) = ScanConfig(KnownOnly(scanner), config)
    /\ Scanned => ret.result.Findings \in ScanConfig(KnownOnly(scanner), config)

\* ScanConfig ran three rules, the second of an unknown type, and returned
\* the Findings of the first and of the third.
C12_Witness ==
    /\ call.fn = "ScanConfig"
    /\ Len(scanner.rules.Rules) = 3
    /\ ~KnownType(scanner.rules.Rules[2])
    /\ Len(ret) = 2
    /\ ret[1].RuleID = scanner.rules.Rules[1].ID
    /\ ret[2].RuleID = scanner.rules.Rules[3].ID

\* The i-th smallest member of the set S of numbers.
Nth(S, i) == CHOOSE n \in S : Cardinality({m \in S : m < n}) = i - 1

\* The findings are, in order, one result of CheckRule for each rule of some
\* of the rules, and for every other rule CheckRule can return nil.
OnePerViolatedRule(findings, rules, c) ==
    \E violated \in SUBSET DOMAIN rules :
        /\ Cardinality(violated) = Len(findings)
        /\ \A k \in DOMAIN findings :
                /\ findings[k].RuleID = rules[Nth(violated, k)].ID
                /\ findings[k] \in CheckRule(rules[Nth(violated, k)], c)
        /\ \A i \in DOMAIN rules \ violated : NoFinding \in CheckRule(rules[i], c)

\* C13: ScanFile hands the rules to CheckRule one by one, in rule set order,
\* starting with the first and returning after the last; what it returns
\* holds the scanned path and, in rule order, one Finding for each rule that
\* CheckRule found violated and nothing else.
C13_ScanFileInOrder ==
    [][LET rules == scanner.rules.Rules
       IN  /\ (frame = NoFrame /\ frame' # NoFrame)
                => frame'.next = 1 /\ frame'.findings = << >>
           /\ (frame # NoFrame /\ frame' # NoFrame)
                => /\ frame'.next = frame.next + 1
                   /\ call'.fn = "CheckRule"
                   /\ rule' = rules[frame.next]
                   /\ config' = config
           /\ (frame # NoFrame /\ frame' = NoFrame)
                => /\ frame.next = Len(rules) + 1
                   /\ ret'.err = NoError
                   /\ ret'.result.File = call'.filePath
                   /\ Len(ret'.result.Findings) <= Len(rules)
                   /\ OnePerViolatedRule(ret'.result.Findings, rules, config)]_vars

\* ScanFile returned, for the file bad.json and a set of three rules, the
\* Findings of the first and of the third rule.
C13_Witness ==
    /\ Scanned
    /\ Len(scanner.rules.Rules) = 3
    /\ ret.result.File = "bad.json"
    /\ Len(ret.result.Findings) = 2
    /\ ret.result.Findings[1].RuleID = scanner.rules.Rules[1].ID
    /\ ret.result.Findings[2].RuleID = scanner.rules.Rules[3].ID

IsFinding(outcome) == outcome # NoFinding

\* What the findings hold for the rule r: its Finding, or nothing.
OutcomeOf(findings, r) ==
    IF \E k \in DOMAIN findings : findings[k].RuleID = r.ID
    THEN findings[CHOOSE k \in DOMAIN findings : findings[k].RuleID = r.ID]
    ELSE NoFinding

\* The findings put in the order of the rules.
Arranged(findings, rules) ==
    SelectSeq([i \in DOMAIN rules |-> OutcomeOf(findings, rules[i])], IsFinding)

\* The Scanner s with its rules in the order order[1], order[2], ...
Permuted(s, order) ==
    [s EXCEPT !.rules.Rules = [i \in DOMAIN order |-> s.rules.Rules[order[i]]]]

\* C14: in a scan every rule gets an outcome that CheckRule gives for that
\* rule alone, whatever the other rules of the set are; and the scans of a
\* permuted rule set return the same Findings, with the same locations, put
\* in the permuted order.
C14_RulesIndependent ==
    call.fn = "ScanConfig"
    => /\ OnePerViolatedRule(ret, scanner.rules.Rules, config)
       /\ \A order \in Permutations(DOMAIN scanner.rules.Rules) :
            LET permuted == Permuted(scanner, order)
            IN  /\ Arranged(ret, permuted.rules.Rules) \in ScanConfig(permuted, config)
                /\ ScanConfig(permuted, config)
                        = {Arranged(findings, permuted.rules.Rules)
                                : findings \in ScanConfig(scanner, config)}

\* ScanConfig ran three rules and returned the Findings of the second and of
\* the third.
C14_Witness ==
    /\ call.fn = "ScanConfig"
    /\ Len(scanner.rules.Rules) = 3
    /\ Len(ret) = 2
    /\ ret[1].RuleID = scanner.rules.Rules[2].ID
    /\ ret[2].RuleID = scanner.rules.Rules[3].ID

\* C18: a ScanFile call whose file the parser fails on returns an error and
\* the empty ScanResult without handing any rule to CheckRule, and leaves
\* the Scanner and the files as they were; whatever calls failed before, a
\* ScanFile that returns without error returns Findings of its own file.
C18_ParseFailure ==
    [][/\ (call'.fn = "ScanFile" /\ frame = NoFrame)
            => LET failed == ParseConfigFile(disk, call'.filePath).err # NoError
               IN  /\ failed <=> frame' = NoFrame
                   /\ failed => /\ ret'.err # NoError
                                 /\ ret'.result = [File |-> "", Findings |-> << >>]
                                 /\ UNCHANGED <<rule, config, scanner, disk>>
       /\ Scanned'
            => LET parsed == ParseConfigFile(disk', call'.filePath)
               IN  /\ parsed.err = NoError
                   /\ ret'.result.File = call'.filePath
                   /\ ret'.result.Findings \in ScanConfig(scanner', parsed.config)]_vars

\* ScanFile was called on a file that cannot be decoded, with a Scanner that
\* has rules, and returned an error before any rule was evaluated.
C18_Witness ==
    /\ call.fn = "ScanFile"
    /\ frame = NoFrame
    /\ ret.err # NoError
    /\ call.filePath \in DOMAIN disk
    /\ disk[call.filePath] = Malformed
    /\ Len(scanner.rules.Rules) > 0
    /\ rule = NoRule
    /\ ret.result.Findings = << >>

----------------------------------------------------------------------------
(* Runs of the command *)

Exited == pc = "exited"

\* The rules were loaded.
Loaded == scanner # NoScanner

\* The parser fails on the file at index i of the command line.
Unparsed(i) == ParseConfigFile(disk, configFiles[i]).err # NoError

\* ScanFile found something in some file.
SomeFinding == \E i \in DOMAIN allResults : Len(allResults[i].Findings) > 0

\* The encoder of the JSON output failed.
EncodingFailed == \E i \in DOMAIN stderr : stderr[i] = "Error encoding JSON"

\* The run ended on an error.
SomeError == \E i \in DOMAIN stderr : TRUE

\* C15 as stated: the run exits with 0 iff the rules loaded, every listed
\* file parsed and no file produced a Finding; it exits with 1 when a file
\* has a Finding or an error occurred.
C15_ExitCode ==
    Exited
    => /\ exitCode = 0 <=> /\ Loaded
                            /\ \A i \in DOMAIN configFiles : ~Unparsed(i)
                            /\ ~SomeFinding
       /\ (SomeFinding \/ SomeError) => exitCode = 1

\* C15 amended: the run exits with 0 iff the rules loaded, every listed file
\* parsed, no file produced a Finding and the encoder of the JSON output did
\* not fail; it exits with 1 otherwise, that is when a file has a Finding or
\* an error occurred.
C15_ExitCodeEncoded ==
    Exited
    => /\ exitCode = 0 <=> /\ Loaded
                            /\ \A i \in DOMAIN configFiles : ~Unparsed(i)
                            /\ ~SomeFinding
                            /\ ~EncodingFailed
       /\ exitCode \in {0, 1}
       /\ (SomeFinding \/ SomeError) <=> exitCode = 1

\* A run with JSON output loaded the rules, scanned its file without a
\* Finding, wrote the result and exited with 0.
C15_Witness ==
    /\ Exited
    /\ exitCode = 0
    /\ outputFormat = "json"
    /\ Loaded
    /\ Len(stdout) = 1
    /\ stdout[1].Findings = << >>

\* C16: the run ends at the first file the parser fails on, with code 1,
\* nothing scanned after it and nothing written to standard output, whatever
\* was scanned before; standard output is written only after the last file
\* was scanned, one result per file in the order of the command line.
C16_AbortOnParseFailure ==
    [][/\ ~Exited
       /\ stdout' # << >>
            => /\ Exited'
               /\ Len(allResults') = Len(configFiles')
               /\ stdout' = allResults'
               /\ \A i \in DOMAIN stdout' : stdout'[i].File = configFiles'[i]
       /\ (Exited' /\ Loaded' /\ \E i \in DOMAIN configFiles' : Unparsed(i)')
            => LET first == CHOOSE i \in DOMAIN configFiles :
                                /\ Unparsed(i)
                                /\ \A j \in 1..(i - 1) : ~Unparsed(j)
               IN  /\ exitCode' = 1
                   /\ stdout' = << >>
                   /\ Len(allResults') = first - 1
                   /\ call'.fn = "ScanFile"
                   /\ call'.filePath = configFiles[first]]_vars

\* A run scanned two files, failed on the third, wrote nothing to standard
\* output and exited with 1.
C16_Witness ==
    /\ Exited
    /\ Len(configFiles) = 3
    /\ Len(allResults) = 2
    /\ Unparsed(3)
    /\ stdout = << >>
    /\ exitCode = 1

\* C17: when the rules file is missing or cannot be decoded, NewScanner
\* returns an error and no Scanner, and the run ends there with code 1: no
\* configuration file is parsed or scanned and nothing is written to
\* standard output.
C17_LoadErrorFatal ==
    [][/\ ~(call.fn = "NewScanner" /\ ret.err # NoError)
       /\ call'.fn = "NewScanner"
            => LET unusable == \/ call'.rulesFile \notin DOMAIN disk
                               \/ disk[call'.rulesFile] = Malformed
               IN  /\ unusable <=> ret'.err # NoError
                   /\ unusable
                        => /\ ret'.s = NoScanner
                           /\ ~Loaded'
                           /\ Exited'
                           /\ exitCode' = 1
                           /\ config' = NoConfig
                           /\ frame' = NoFrame
                           /\ allResults' = << >>
                           /\ stdout' = << >>]_vars

\* A run given a rules file that cannot be decoded and a configuration file
\* ended with code 1 when loading the rules.
C17_Witness ==
    /\ call.fn = "NewScanner"
    /\ ret.err # NoError
    /\ rulesFile = "custom.yaml"
    /\ disk["custom.yaml"] = Malformed
    /\ Len(configFiles) = 1
    /\ Exited
    /\ exitCode = 1
    /\ stdout = << >>

----------------------------------------------------------------------------
(* Candidates of the remaining check kinds *)

\* Some value held under the key field, at any depth, has the string form of
\* a value the rule forbids.
Forbidden(field) ==
    \E v \in TreeValues(Tree, field) :
        \E j \in DOMAIN rule.Check.Values : Sprintf(v) = Sprintf(rule.Check.Values[j])

\* C21: a field_check rule yields a Finding iff some value held, at any
\* depth, under a field of Check.Fields has the string form of an entry of
\* Check.Values; the location is the first such field of the list.
C21_FieldCheck ==
    (Evaluated /\ rule.Check.Type = "field_check")
    => /\ Found <=> \E i \in DOMAIN rule.Check.Fields : Forbidden(rule.Check.Fields[i])
       /\ Found => \E i \in DOMAIN rule.Check.Fields :
                        /\ ret.Location = rule.Check.Fields[i]
                        /\ Forbidden(rule.Check.Fields[i])
                        /\ \A j \in 1..(i - 1) : ~Forbidden(rule.Check.Fields[j])

\* The value v passes the test of the condition.
Passes(condition, v) ==
    CASE condition.Operator = "greater_than" ->
            IsNumber(v) /\ IsNumber(condition.Value) /\ v.n > condition.Value.n
      [] condition.Operator = "equals" -> Sprintf(v) = Sprintf(condition.Value)
      [] condition.Operator = "not_equals" -> Sprintf(v) # Sprintf(condition.Value)
      [] OTHER -> FALSE

\* C22: a condition is satisfied iff some value held under its parameter, at
\* any depth, passes its operator: greater_than for a number strictly above
\* a numeric threshold, equals and not_equals on the string forms; a
\* parameter the tree does not hold satisfies no condition, and neither does
\* an operator other than these three.
C22_ConditionSatisfied ==
    (/\ Evaluated
     /\ rule.Check.Type = "combined_conditions"
     /\ Len(rule.Check.Conditions) = 1
     /\ rule.Check.Require = "any")
    => LET condition == rule.Check.Conditions[1]
       IN  Found <=> \E v \in TreeValues(Tree, condition.Parameter) :
                        Passes(condition, v)

RECURSIVE StringsOf(_)
\* The strings the tree v holds as leaves of mappings and as items of
\* sequences, at any depth, one entry per occurrence.
StringsOf(v) ==
    LET RECURSIVE concat(_)
        concat(seqs) == IF seqs = << >> THEN << >>
                        ELSE Head(seqs) \o concat(Tail(seqs))
    IN  CASE IsString(v) -> <<v.s>>
          [] IsSeq(v) -> concat([i \in DOMAIN v.items |-> StringsOf(v.items[i])])
          [] IsMap(v) ->
                LET order == CHOOSE o \in RangeOrders(v.m) : TRUE
                IN  concat([i \in DOMAIN order |-> StringsOf(v.m[order[i]])])
          [] OTHER -> << >>

\* The texts made of the given strings, each followed by one space, in any
\* order.
Shuffles(strs) ==
    {Join([i \in DOMAIN strs |-> strs[order[i]] \o " "], "")
        : order \in Permutations(DOMAIN strs)}

\* C23: GetAllContent returns the strings of the tree, those held by
\* mappings and those that are items of sequences at any depth, each
\* followed by one space, and nothing else.
C23_ContentWholeTree ==
    call.fn = "GetAllContent" => ret \in Shuffles(StringsOf(Tree))

-----------------------------------------------------------------------------
(* Parameter lists and bounds of numeric_range *)

\* The listed parameters of the rule under which the configuration holds a
\* number outside [Min, Max], as positions in the list.
OutOfRange ==
    {i \in DOMAIN rule.Check.Parameters :
        \E v \in MapValues(Tree, rule.Check.Parameters[i]) : Outside(v)}

\* The range test of the rule is in force.
Active ==
    \/ rule.Check.Min # 0
    \/ rule.Check.Max # 0
    \/ rule.Check.Condition = "any_value_exceeds"

ListOnly ==
    /\ Evaluated
    /\ rule.Check.Type = "numeric_range"
    /\ rule.Check.Parameter = ""
    /\ Len(rule.Check.Parameters) > 0

\* The Finding is located at the first listed parameter that holds a number
\* outside the range.
AtFirstOutOfRange ==
    \E i \in OutOfRange :
        /\ ret.Location = rule.Check.Parameters[i]
        /\ \A j \in OutOfRange : i <= j

\* C24: a numeric_range rule with an empty Parameter and a non-empty
\* Parameters list yields a Finding iff some listed parameter holds a number
\* outside [Min, Max], and the Finding is located at the first such parameter
\* in list order.
C24_FirstViolator ==
    ListOnly => /\ Found <=> OutOfRange # {}
                /\ Found => AtFirstOutOfRange

\* C24 as amended: the same, for a rule whose range test is in force (Min
\* or Max non-zero, or Condition "any_value_exceeds"); a rule whose range
\* test is not in force yields no Finding.
C24_FirstActiveViolator ==
    ListOnly => /\ Found <=> (Active /\ OutOfRange # {})
                /\ Found => AtFirstOutOfRange

\* A rule listing two parameters was evaluated on a configuration that holds
\* a number outside the range under each of them, and the Finding is located
\* at the first of the two.
C24_Witness ==
    /\ ListOnly
    /\ Active
    /\ OutOfRange = {1, 2}
    /\ Found
    /\ ret.Location = rule.Check.Parameters[1]

-----------------------------------------------------------------------------
(* Repeated scans *)

\* No step of a scan changes the rules the Scanner loaded, the files, or the
\* Config of the scan in progress.
ReadOnly ==
    /\ scanner' = scanner
    /\ disk' = disk
    /\ (frame # NoFrame /\ frame' # NoFrame) => config' = config

\* A scan of a Config that follows a scan of the same Config returns the
\* same result.
SameAgain ==
    (call.fn = "ScanConfig" /\ call'.fn = "ScanConfig" /\ config' = config)
        => ret' = ret

\* C25: scanning is read-only and stateless: no CheckRule, ScanConfig or
\* ScanFile step changes the loaded rules or a Config, and scanning the same
\* Config again gives the same result as before.
C25_ScanStateless == [][ReadOnly /\ SameAgain]_vars

-----------------------------------------------------------------------------
(* Dotted paths *)

RECURSIVE Reached(_, _)
\* The values reached from v by following the segments one by one, each
\* through a mapping that holds the segment as a key.
Reached(v, segments) ==
    IF segments = << >> THEN {v}
    ELSE IF IsMap(v) /\ Head(segments) \in DOMAIN v.m
    THEN Reached(v.m[Head(segments)], Tail(segments))
    ELSE {}

\* C26: GetValue(path) returns (v, true) iff following the segments of the
\* path one by one from the root through nested mappings reaches a key that
\* holds v, and no match otherwise: when a segment is absent, when the value
\* of an intermediate segment is not a mapping, and when the key exists
\* only at another depth.
C26_GetValue ==
    call.fn = "GetValue" =>
        LET reached == Reached(Tree, Split(call.path, "."))
        IN  /\ ret.ok <=> reached # {}
            /\ ret.ok => ret.value \in reached
            /\ ~ret.ok => ret.value = NilV

\* GetValue of a one-segment path gave no match on a configuration that
\* holds the key in a nested mapping only, and the two-segment path through
\* that mapping reaches a value.
C26_Witness ==
    /\ call.fn = "GetValue"
    /\ call.path = "api_key"
    /\ ~ret.ok
    /\ Holders(Tree, "api_key") > 0
    /\ Reached(Tree, <<"temperature", "api_key">>) # {}

-----------------------------------------------------------------------------
(* A bound left out of a numeric_range rule *)

\* The numbers among the candidates of the rule's parameters.
NumericCandidates ==
    {v \in UNION {MapValues(Tree, name) : name \in Targets(rule.Check)} :
        IsNumber(v)}

\* C27: in numeric_range a bound left out is the number 0: with Min non-zero
\* and Max = 0 a numeric candidate greater than 0 violates whatever Min is,
\* and with Max non-zero and Min = 0 a negative numeric candidate violates.
C27_OmittedBoundIsZero ==
    (Evaluated /\ rule.Check.Type = "numeric_range")
    => /\ (rule.Check.Min # 0 /\ rule.Check.Max = 0
            /\ \E v \in NumericCandidates : v.n > 0) => Found
       /\ (rule.Check.Max # 0 /\ rule.Check.Min = 0
            /\ \E v \in NumericCandidates : v.n < 0) => Found

\* A rule with Min = 1 and no Max was evaluated on a configuration whose
\* numeric candidates are all at least 1, and gave a Finding.
C27_Witness ==
    /\ Evaluated
    /\ rule.Check.Type = "numeric_range"
    /\ rule.Check.Min = 1
    /\ rule.Check.Max = 0
    /\ NumericCandidates # {}
    /\ \A v \in NumericCandidates : v.n >= rule.Check.Min
    /\ Found

-----------------------------------------------------------------------------
(* Candidates of pattern_match that are not strings *)

\* The candidates of the key name.
Candidates(name) == MapValues(Tree, name)

\* The strings that are items of the sequence v.
ItemsOf(v) == {v.items[k].s : k \in {i \in DOMAIN v.items : IsString(v.items[i])}}

\* The strings held as items by the candidate sequences of the given keys.
SequenceStrings(names) ==
    UNION {ItemsOf(v) : v \in {w \in UNION {Candidates(name) : name \in names} :
                                    IsSeq(w)}}

\* The keys the rule lists in Fields.
Scope == {rule.Fields[i] : i \in DOMAIN rule.Fields}

\* A field-scoped rule yields a Finding only through a candidate of a listed
\* field that is a string and matches a listed pattern.
OnlyStringCandidates ==
    (Evaluated /\ rule.Check.Type = "pattern_match" /\ Len(rule.Fields) > 0 /\ Found)
        => \E name \in Scope : \E v \in Candidates(name) :
                IsString(v) /\ Listed(v.s)

\* The pattern is a literal searched anywhere in the text.
Unanchored(pattern) ==
    /\ pattern \notin InvalidPatterns
    /\ pattern # ""
    /\ SubSeq(pattern, 1, 1) # "^"
    /\ SubSeq(pattern, Len(pattern), Len(pattern)) # "$"

\* C28: a field-scoped pattern_match rule tests only candidates that are
\* strings, so a candidate that is a number, a mapping or a sequence, even a
\* sequence of matching strings, never causes a Finding; a rule without
\* Fields yields a Finding when a string of such a sequence matches a listed
\* pattern.
C28_StringCandidatesOnly ==
    /\ OnlyStringCandidates
    /\ (Evaluated /\ rule.Check.Type = "pattern_match" /\ Len(rule.Fields) = 0
            /\ \E str \in SequenceStrings(Keys) : Listed(str)) => Found

\* C28 as amended: the same, where the rule without Fields yields a Finding
\* when a string of such a sequence matches a listed pattern that has no
\* "^" and no "$".
C28_StringCandidatesUnanchored ==
    /\ OnlyStringCandidates
    /\ (Evaluated /\ rule.Check.Type = "pattern_match" /\ Len(rule.Fields) = 0
            /\ \E str \in SequenceStrings(Keys) :
                    \E i \in DOMAIN rule.Check.Patterns :
                        /\ Unanchored(rule.Check.Patterns[i])
                        /\ MatchString(rule.Check.Patterns[i], str)) => Found

\* A field-scoped rule was evaluated on a configuration where a listed field
\* holds a sequence with a matching string and no listed field holds a
\* matching string itself, and gave no Finding.
C28_Witness ==
    /\ Evaluated
    /\ rule.Check.Type = "pattern_match"
    /\ Len(rule.Fields) > 0
    /\ \E str \in SequenceStrings(Scope) : Listed(str)
    /\ ~Found

-----------------------------------------------------------------------------
(* A numeric_range rule with both Parameter and Parameters *)

BothGiven ==
    /\ Evaluated
    /\ rule.Check.Type = "numeric_range"
    /\ rule.Check.Parameter # ""
    /\ Len(rule.Check.Parameters) > 0

\* C29: when a numeric_range check has a non-empty Parameter and a
\* Parameters list, only Parameter is evaluated: a Finding comes from a
\* number outside the range under Parameter and is located there, and a
\* number outside the range under a field named only in Parameters yields
\* no Finding.
C29_ParameterOnly ==
    BothGiven => /\ Found => \E v \in MapValues(Tree, rule.Check.Parameter) :
                                Outside(v)
                 /\ Found => ret.Location = rule.Check.Parameter

\* A rule with Parameter, Parameters and a range test in force was evaluated
\* on a configuration that holds a number outside the range under a field
\* named only in Parameters, and gave no Finding.
C29_Witness ==
    /\ BothGiven
    /\ Active
    /\ \E i \in OutOfRange : rule.Check.Parameters[i] # rule.Check.Parameter
    /\ ~Found

-----------------------------------------------------------------------------
(* Presence and candidates *)

\* C30: HasField(name) is true iff GetAllFieldValues(name) is non-empty: a
\* field reported present has at least one candidate and a field reported
\* absent has none.
C30_PresentIffCandidates ==
    /\ call.fn = "HasField" =>
            \A values \in GetAllFieldValues(config, call.field) :
                ret <=> Len(values) > 0
    /\ call.fn = "GetAllFieldValues" =>
            (Len(ret) > 0 <=> HasField(config, call.field))

\* HasField reported present a field that only a nested mapping holds, and
\* the field has a candidate.
C30_Witness ==
    /\ call.fn = "HasField"
    /\ ret
    /\ call.field \notin DOMAIN config.Data
    /\ \E values \in GetAllFieldValues(config, call.field) : Len(values) > 0

====
